---- MODULE Spec2Model ----
(***************************************************************************)
(* A model of the PayTR client library (package payment, package domain).  *)
(*                                                                         *)
(* Go strings are TLA+ strings, joined with \o.  A float64 amount is a     *)
(* sign and a magnitude in units of 1/AmountScale (a dyadic rational, as   *)
(* every finite float64 is), or NaN, or an infinity.  HMAC-SHA256 and      *)
(* base64 are idealised as collision-free: the digest of (key, message)    *)
(* is written out as a string that names both, so two tokens are equal     *)
(* exactly when their keys and their messages are.                         *)
(***************************************************************************)
EXTENDS Integers, Sequences, FiniteSets, TLC

(***************************************************************************)
(* Bounds of the model.                                                    *)
(***************************************************************************)
\* Fractional bits of a modelled amount: amounts are multiples of 2^-AmountBits.
AmountBits == 10
\* Number of transport handles a caller may inject with SetHTTPClient.
NumMocks == 2

RECURSIVE Pow2(_)
Pow2(n) == IF n = 0 THEN 1 ELSE 2 * Pow2(n - 1)

AmountScale == Pow2(AmountBits)

(***************************************************************************)
(* float64 values.                                                         *)
(***************************************************************************)
Fin(neg, mag) == [class |-> "finite", neg |-> neg, mag |-> mag]
NaN == [class |-> "nan", neg |-> FALSE, mag |-> 0]
PosInf == [class |-> "inf", neg |-> FALSE, mag |-> 0]
NegInf == [class |-> "inf", neg |-> TRUE, mag |-> 0]
\* The float64 nearest the decimal literal whole.00 (exact).
Whole(n) == Fin(FALSE, n * AmountScale)
\* The largest modelled amount below Whole(n): n - 2^-AmountBits (99.999... for n = 100).
JustBelow(n) == Fin(FALSE, n * AmountScale - 1)
\* n + 1/8, a binary fraction whose third decimal is an exact 5 (0.125: a rounding tie).
PlusEighth(n) == Fin(FALSE, n * AmountScale + AmountScale \div 8)
\* n + 3/8 (0.375: a rounding tie above an odd hundredth).
PlusThreeEighths(n) == Fin(FALSE, n * AmountScale + 3 * (AmountScale \div 8))

IsFinite(f) == f.class = "finite"

(***************************************************************************)
(* strconv: decimal rendering.                                             *)
(***************************************************************************)
DigitChar == <<"0", "1", "2", "3", "4", "5", "6", "7", "8", "9">>

RECURSIVE Itoa(_)
Itoa(n) == IF n < 10 THEN DigitChar[n + 1] ELSE Itoa(n \div 10) \o DigitChar[(n % 10) + 1]

\* RoundedHundredths cutting the digits after the second instead of rounding.
RoundedHundredthsTruncating(mag) == (mag * 100) \div AmountScale

\* decimal.Round as FormatFloat's 'f' path uses it: the exact value mag/AmountScale,
\* cut to `prec` = 2 decimals, rounds up when the rest is above one half, and on an
\* exact half rounds to the even digit.
RoundedHundredths(mag) ==
    LET q == (mag * 100) \div AmountScale
        r == (mag * 100) % AmountScale
    IN  IF 2 * r > AmountScale THEN q + 1
        ELSE IF 2 * r = AmountScale /\ q % 2 = 1 THEN q + 1
        ELSE q

\* strconv.AppendFloat(.., f, 'f', 2, 64): the sign it writes and the text after it.
\* NaN has no sign, an infinity always has one, a finite number only when negative.
AppendFloat(f) ==
    IF f.class = "nan" THEN [sign |-> "", text |-> "NaN"]
    ELSE IF f.class = "inf" THEN [sign |-> IF f.neg THEN "-" ELSE "+", text |-> "Inf"]
    ELSE LET h == RoundedHundredths(f.mag)
         IN  [sign |-> IF f.neg THEN "-" ELSE "",
              text |-> Itoa(h \div 100) \o "."
                          \o DigitChar[((h % 100) \div 10) + 1] \o DigitChar[(h % 10) + 1]]

\* strconv.FormatFloat(f, 'f', 2, 64), as generateToken renders PaymentAmount.
FormatFloat(f) == LET a == AppendFloat(f) IN a.sign \o a.text

\* SprintfFloat2 with the verb %v in place of %.2f on a whole amount: no decimals.
SprintfFloat2Plain(f) ==
    IF f.class = "finite" /\ f.mag % AmountScale = 0
    THEN (IF f.neg THEN "-" ELSE "") \o Itoa(f.mag \div AmountScale)
    ELSE FormatFloat(f)

\* fmt.Sprintf("%.2f", f), as RefundPayment renders ReturnAmount.  fmt.fmtFloat
\* formats with AppendFloat behind a reserved sign byte, forces a sign into that
\* byte, prints NaN without it and an infinity with it, and prints a finite number
\* with its sign only when that sign is not '+'.
SprintfFloat2(f) ==
    LET a == AppendFloat(f)
        sign == IF a.sign = "" THEN "+" ELSE a.sign
    IN  IF a.text = "NaN" THEN a.text
        ELSE IF a.text = "Inf" THEN sign \o a.text
        ELSE IF sign # "+" THEN sign \o a.text
        ELSE a.text

(***************************************************************************)
(* crypto/hmac, crypto/sha256, encoding/base64 (idealised).                *)
(***************************************************************************)
HmacSha256(key, msg) == "hmac-sha256{" \o key \o "}{" \o msg \o "}"
Base64(digest) == "base64(" \o digest \o ")"

(***************************************************************************)
(* package domain.                                                         *)
(***************************************************************************)
PayTRBaseURL == "https://www.paytr.com"

\* config.PayTRConfig values a client may be built with.
Configs ==
    { [MerchantID |-> "test_merchant", MerchantKey |-> "test_key", MerchantSalt |-> "test_salt"],
      [MerchantID |-> "m", MerchantKey |-> "k2", MerchantSalt |-> "s2"] }


\* The nil pointer / nil value of a result.
Nil == [isNil |-> TRUE]
\* The nil error.
NoError == "<nil>"

\* domain.CommonPaymentRequest{} with every field at its zero value.
ZeroCommon ==
    [MerchantID |-> "", UserIP |-> "", MerchantOid |-> "", Email |-> "",
     PaymentAmount |-> Fin(FALSE, 0), PaymentType |-> "", Currency |-> "",
     TestMode |-> "", NonThreeD |-> "", MerchantOkURL |-> "", MerchantFailURL |-> "",
     UserName |-> "", UserAddress |-> "", UserPhone |-> "", UserBasket |-> "",
     DebugOn |-> "", ClientLang |-> "", PayTRToken |-> "", InstallmentCount |-> ""]

\* The fields NewCardPaymentRequest adds to the embedded CommonPaymentRequest.
ZeroCard ==
    [CardOwner |-> "", CardNumber |-> "", ExpiryMonth |-> "", ExpiryYear |-> "",
     CVV |-> "", CardType |-> "", StoreCard |-> ""]

\* The fields SavedCardPaymentRequest adds to the embedded CommonPaymentRequest.
ZeroSaved == [UToken |-> "", CToken |-> "", CVV |-> "", RecurringPayment |-> ""]

\* domain.NewCardPaymentRequest{}: Go promotes the embedded struct's fields.
ZeroNewCardPaymentRequest == ZeroCommon @@ ZeroCard
\* domain.SavedCardPaymentRequest{}.
ZeroSavedCardPaymentRequest == ZeroCommon @@ ZeroSaved

\* domain.AddNewCardRequest{}.
ZeroAddNewCardRequest ==
    [UserID |-> "", CardOwner |-> "", CardNumber |-> "", ExpiryMonth |-> "",
     ExpiryYear |-> "", CVV |-> "", CardType |-> "", UserIP |-> "", MerchantOid |-> "",
     Email |-> "", UserName |-> "", UserAddress |-> "", UserPhone |-> "",
     MerchantOkURL |-> "", MerchantFailURL |-> "", ClientLang |-> "", Currency |-> "",
     PaymentAmount |-> Fin(FALSE, 0)]

\* req.CommonPaymentRequest: the embedded struct of a payment request.
CommonOf(req) == [f \in DOMAIN ZeroCommon |-> req[f]]

(***************************************************************************)
(* Token generator.                                                        *)
(***************************************************************************)
\* generateSimpleToken with the salt put before the data.
generateSimpleTokenSaltFirst(cfg, data) ==
    LET hmacStr == cfg.MerchantSalt \o data
    IN  Base64(HmacSha256(cfg.MerchantKey, hmacStr))

\* service.generateSimpleToken(data).
generateSimpleToken(cfg, data) ==
    LET hmacStr == data \o cfg.MerchantSalt
    IN  Base64(HmacSha256(cfg.MerchantKey, hmacStr))

\* paymentHashStr with the merchant ID read from the caller's request instead of
\* the client's credentials.
paymentHashStrCallerMerchant(cfg, req) ==
    req.MerchantID \o req.UserIP \o req.MerchantOid \o req.Email
        \o FormatFloat(req.PaymentAmount) \o req.PaymentType \o req.InstallmentCount
        \o req.Currency \o req.TestMode \o req.NonThreeD

\* paymentHashStr with the email left out of the signed fields.
paymentHashStrNoEmail(cfg, req) ==
    cfg.MerchantID \o req.UserIP \o req.MerchantOid
        \o FormatFloat(req.PaymentAmount) \o req.PaymentType \o req.InstallmentCount
        \o req.Currency \o req.TestMode \o req.NonThreeD

\* paymentHashStr with the basket signed as an eleventh field.
paymentHashStrWithBasket(cfg, req) ==
    cfg.MerchantID \o req.UserIP \o req.MerchantOid \o req.Email
        \o FormatFloat(req.PaymentAmount) \o req.PaymentType \o req.InstallmentCount
        \o req.Currency \o req.TestMode \o req.NonThreeD \o req.UserBasket

\* The hashStr of service.generateToken: its ten %s arguments in their order.
paymentHashStr(cfg, req) ==
    cfg.MerchantID \o req.UserIP \o req.MerchantOid \o req.Email
        \o FormatFloat(req.PaymentAmount) \o req.PaymentType \o req.InstallmentCount
        \o req.Currency \o req.TestMode \o req.NonThreeD

\* service.generateToken(req).
generateToken(cfg, req) ==
    LET hmacStr == paymentHashStr(cfg, req) \o cfg.MerchantSalt
    IN  Base64(HmacSha256(cfg.MerchantKey, hmacStr))

(***************************************************************************)
(* Request shaper: what each operation hands to sendRequest.  `type` names *)
(* the Go type of the payload value, `v` is the value, `url` the endpoint.  *)
(***************************************************************************)
\* NewCardPayment, up to its call of sendRequest.
NewCardPayment(cfg, req) ==
    [type |-> "NewCardPaymentRequest",
     v |-> [req EXCEPT !.PayTRToken = generateToken(cfg, CommonOf(req))],
     url |-> PayTRBaseURL \o "/odeme"]

\* SavedCardPayment, up to its call of sendRequest.
SavedCardPayment(cfg, req) ==
    [type |-> "SavedCardPaymentRequest",
     v |-> [req EXCEPT !.PayTRToken = generateToken(cfg, CommonOf(req))],
     url |-> PayTRBaseURL \o "/odeme"]

\* RecurringPayment sending the caller's recurring flag as it came.
RecurringPaymentUnforced(cfg, req) ==
    [type |-> "SavedCardPaymentRequest",
     v |-> [req EXCEPT !.PayTRToken = generateToken(cfg, CommonOf(req))],
     url |-> PayTRBaseURL \o "/odeme"]

\* RecurringPayment, up to its call of sendRequest.
RecurringPayment(cfg, req) ==
    LET r == [req EXCEPT !.RecurringPayment = "1"]
    IN  [type |-> "SavedCardPaymentRequest",
         v |-> [r EXCEPT !.PayTRToken = generateToken(cfg, CommonOf(r))],
         url |-> PayTRBaseURL \o "/odeme"]

\* RefundPayment leaving the payload's merchant ID unset.
RefundPaymentWithoutMerchant(cfg, req) ==
    LET hashStr == cfg.MerchantID \o req.MerchantOid \o SprintfFloat2(req.ReturnAmount)
    IN  [type |-> "refund",
         v |-> [MerchantID |-> "", MerchantOid |-> req.MerchantOid,
                ReturnAmount |-> req.ReturnAmount,
                PayTRToken |-> generateSimpleToken(cfg, hashStr),
                ReferenceNo |-> req.ReferenceNo],
         url |-> PayTRBaseURL \o "/odeme/iade"]

\* RefundPayment, up to its call of sendRequest.
RefundPayment(cfg, req) ==
    LET hashStr == cfg.MerchantID \o req.MerchantOid \o SprintfFloat2(req.ReturnAmount)
    IN  [type |-> "refund",
         v |-> [MerchantID |-> cfg.MerchantID, MerchantOid |-> req.MerchantOid,
                ReturnAmount |-> req.ReturnAmount,
                PayTRToken |-> generateSimpleToken(cfg, hashStr),
                ReferenceNo |-> req.ReferenceNo],
         url |-> PayTRBaseURL \o "/odeme/iade"]

\* MerchantStatusInquiry, up to its call of sendRequest.
StatusInquiryShape(cfg, req) ==
    [type |-> "status",
     v |-> [MerchantID |-> cfg.MerchantID, MerchantOid |-> req.MerchantOid,
            PayTRToken |-> generateSimpleToken(cfg, cfg.MerchantID \o req.MerchantOid)],
     url |-> PayTRBaseURL \o "/odeme/durum-sorgu"]

\* GetTransactionDetails, up to its call of sendRequest.
TransactionDetailsShape(cfg, req) ==
    [type |-> "report",
     v |-> [MerchantID |-> cfg.MerchantID, StartDate |-> req.StartDate,
            EndDate |-> req.EndDate, Dummy |-> req.Dummy,
            PayTRToken |-> generateSimpleToken(cfg,
                              cfg.MerchantID \o req.StartDate \o req.EndDate)],
     url |-> PayTRBaseURL \o "/rapor/islem-dokumu"]

\* GetBinDetails(binNumber), up to its call of sendRequest.
GetBinDetails(cfg, req) ==
    [type |-> "bin",
     v |-> [MerchantID |-> cfg.MerchantID, BinNumber |-> req.binNumber,
            PayTRToken |-> generateSimpleToken(cfg, req.binNumber \o cfg.MerchantID)],
     url |-> PayTRBaseURL \o "/odeme/api/bin-detail"]

\* GetSavedCards(utoken), up to its call of sendRequest.
GetSavedCards(cfg, req) ==
    [type |-> "list",
     v |-> [MerchantID |-> cfg.MerchantID, UToken |-> req.utoken,
            PayTRToken |-> generateSimpleToken(cfg, req.utoken)],
     url |-> PayTRBaseURL \o "/odeme/capi/list"]

\* DeleteSavedCard signing the user token alone.
DeleteSavedCardUserOnly(cfg, req) ==
    [type |-> "delete",
     v |-> [MerchantID |-> cfg.MerchantID, UToken |-> req.utoken, CToken |-> req.ctoken,
            PayTRToken |-> generateSimpleToken(cfg, req.utoken)],
     url |-> PayTRBaseURL \o "/odeme/capi/delete"]

\* DeleteSavedCard(utoken, ctoken), up to its call of sendRequest.
DeleteSavedCard(cfg, req) ==
    [type |-> "delete",
     v |-> [MerchantID |-> cfg.MerchantID, UToken |-> req.utoken, CToken |-> req.ctoken,
            PayTRToken |-> generateSimpleToken(cfg, req.utoken \o req.ctoken)],
     url |-> PayTRBaseURL \o "/odeme/capi/delete"]

\* AddNewCardRequestOf taking the amount and the currency from the caller.
AddNewCardRequestOfCallerAmount(cfg, req) ==
    [MerchantID |-> cfg.MerchantID, UserIP |-> req.UserIP, MerchantOid |-> req.MerchantOid,
     Email |-> req.Email, PaymentAmount |-> req.PaymentAmount, PaymentType |-> "card",
     Currency |-> req.Currency, TestMode |-> "1", NonThreeD |-> "0",
     MerchantOkURL |-> req.MerchantOkURL, MerchantFailURL |-> req.MerchantFailURL,
     UserName |-> req.CardOwner, UserAddress |-> req.UserAddress,
     UserPhone |-> req.UserPhone, UserBasket |-> "[[\"Card Validation\", \"1\", 1]]",
     DebugOn |-> "1", ClientLang |-> "tr", PayTRToken |-> "", InstallmentCount |-> "0",
     CardOwner |-> req.CardOwner, CardNumber |-> req.CardNumber,
     ExpiryMonth |-> req.ExpiryMonth, ExpiryYear |-> req.ExpiryYear, CVV |-> req.CVV,
     CardType |-> req.CardType, StoreCard |-> "1"]

\* The NewCardPaymentRequest AddNewCard builds from the caller's AddNewCardRequest.
AddNewCardRequestOf(cfg, req) ==
    [MerchantID |-> cfg.MerchantID, UserIP |-> req.UserIP, MerchantOid |-> req.MerchantOid,
     Email |-> req.Email, PaymentAmount |-> Whole(1), PaymentType |-> "card",
     Currency |-> "TRY", TestMode |-> "1", NonThreeD |-> "0",
     MerchantOkURL |-> req.MerchantOkURL, MerchantFailURL |-> req.MerchantFailURL,
     UserName |-> req.CardOwner, UserAddress |-> req.UserAddress,
     UserPhone |-> req.UserPhone, UserBasket |-> "[[\"Card Validation\", \"1\", 1]]",
     DebugOn |-> "1", ClientLang |-> "tr", PayTRToken |-> "", InstallmentCount |-> "0",
     CardOwner |-> req.CardOwner, CardNumber |-> req.CardNumber,
     ExpiryMonth |-> req.ExpiryMonth, ExpiryYear |-> req.ExpiryYear, CVV |-> req.CVV,
     CardType |-> req.CardType, StoreCard |-> "1"]

\* AddNewCard, up to its call of sendRequest.
AddNewCard(cfg, req) ==
    LET paytrReq == AddNewCardRequestOf(cfg, req)
    IN  [type |-> "NewCardPaymentRequest",
         v |-> [paytrReq EXCEPT !.PayTRToken = generateToken(cfg, CommonOf(paytrReq))],
         url |-> PayTRBaseURL \o "/odeme"]


(***************************************************************************)
(* encoding/json: the payload on the wire.  A JSON object is a record      *)
(* keyed by the struct tags' wire names.                                   *)
(***************************************************************************)
\* The JSON members of an embedded CommonPaymentRequest.
MarshalCommon(v) ==
    [merchant_id |-> v.MerchantID, user_ip |-> v.UserIP, merchant_oid |-> v.MerchantOid,
     email |-> v.Email, payment_amount |-> v.PaymentAmount, payment_type |-> v.PaymentType,
     currency |-> v.Currency, test_mode |-> v.TestMode, non_3d |-> v.NonThreeD,
     merchant_ok_url |-> v.MerchantOkURL, merchant_fail_url |-> v.MerchantFailURL,
     user_name |-> v.UserName, user_address |-> v.UserAddress, user_phone |-> v.UserPhone,
     user_basket |-> v.UserBasket, debug_on |-> v.DebugOn, client_lang |-> v.ClientLang,
     paytr_token |-> v.PayTRToken, installment_count |-> v.InstallmentCount]

\* The JSON object of a payload value of Go type p.type.  A member tagged
\* omitempty (reference_no, dummy) is left out at its zero value.
MarshalObject(p) ==
    LET v == p.v
    IN  CASE p.type = "NewCardPaymentRequest" ->
                MarshalCommon(v) @@
                [cc_owner |-> v.CardOwner, card_number |-> v.CardNumber,
                 expiry_month |-> v.ExpiryMonth, expiry_year |-> v.ExpiryYear,
                 cvv |-> v.CVV, card_type |-> v.CardType, store_card |-> v.StoreCard]
          [] p.type = "SavedCardPaymentRequest" ->
                MarshalCommon(v) @@
                [utoken |-> v.UToken, ctoken |-> v.CToken, cvv |-> v.CVV,
                 recurring_payment |-> v.RecurringPayment]
          [] p.type = "refund" ->
                [merchant_id |-> v.MerchantID, merchant_oid |-> v.MerchantOid,
                 return_amount |-> v.ReturnAmount, paytr_token |-> v.PayTRToken]
                @@ (IF v.ReferenceNo = "" THEN <<>> ELSE [reference_no |-> v.ReferenceNo])
          [] p.type = "status" ->
                [merchant_id |-> v.MerchantID, merchant_oid |-> v.MerchantOid,
                 paytr_token |-> v.PayTRToken]
          [] p.type = "report" ->
                [merchant_id |-> v.MerchantID, start_date |-> v.StartDate,
                 end_date |-> v.EndDate, paytr_token |-> v.PayTRToken]
                @@ (IF v.Dummy = 0 THEN <<>> ELSE [dummy |-> v.Dummy])
          [] p.type = "bin" ->
                [merchant_id |-> v.MerchantID, bin_number |-> v.BinNumber,
                 paytr_token |-> v.PayTRToken]
          [] p.type = "list" ->
                [merchant_id |-> v.MerchantID, utoken |-> v.UToken,
                 paytr_token |-> v.PayTRToken]
          [] p.type = "delete" ->
                [merchant_id |-> v.MerchantID, utoken |-> v.UToken, ctoken |-> v.CToken,
                 paytr_token |-> v.PayTRToken]

\* The float64 members of a payload value.
FloatsOf(p) ==
    CASE p.type \in {"NewCardPaymentRequest", "SavedCardPaymentRequest"} -> {p.v.PaymentAmount}
      [] p.type = "refund" -> {p.v.ReturnAmount}
      [] OTHER -> {}

\* json.Marshal(req): an UnsupportedValueError for a NaN or infinite float64, the
\* only values of these payload types encoding/json refuses.
JsonMarshal(p) ==
    IF \E f \in FloatsOf(p) : ~IsFinite(f)
    THEN [err |-> "json: unsupported value", body |-> Nil]
    ELSE [err |-> NoError, body |-> MarshalObject(p)]

\* The URLs url.Parse accepts among those the model builds: every endpoint URL is
\* the constant base joined with a constant path.
EndpointPaths ==
    {"/odeme", "/odeme/iade", "/odeme/durum-sorgu", "/rapor/islem-dokumu",
     "/odeme/api/bin-detail", "/odeme/capi/list", "/odeme/capi/delete"}

\* http.NewRequest("POST", url, body): fails only when the URL does not parse.
NewRequestErr(url) ==
    IF url \in {PayTRBaseURL \o path : path \in EndpointPaths}
    THEN NoError ELSE "net/http: invalid URL"


(***************************************************************************)
(* The gateway's reply as the transport hands it over.  Do returns an      *)
(* error, or a response with a status code and a body whose read may       *)
(* fail.  A body is JSON text: `valid` says whether it parses into the     *)
(* envelope; a parsed object has status, message and data members.  A      *)
(* data map is a set of <<key, value>> pairs with distinct keys; a value   *)
(* is [str |-> ..], [num |-> ..] or [list |-> <<map, ...>>].               *)
(***************************************************************************)
Reply(doErr, code, readErr, body) ==
    [doErr |-> doErr, code |-> code, readErr |-> readErr, body |-> body]

Envelope(status, message, data) ==
    [valid |-> TRUE, status |-> status, message |-> message, data |-> data]

InvalidBody == [valid |-> FALSE, status |-> "", message |-> "", data |-> {}]

\* json.Unmarshal(body, &result) into a domain.PayTRResponse.
JsonUnmarshal(body) ==
    IF ~body.valid
    THEN [err |-> "invalid character", result |-> Nil]
    ELSE [err |-> NoError,
          result |-> [Status |-> body.status, Message |-> body.message, Data |-> body.data]]

(***************************************************************************)
(* github.com/mitchellh/mapstructure: Decode(map, &struct).                *)
(***************************************************************************)
\* The fields of the decode targets: Go name, and for a slice its element type.
StructFields(type) ==
    CASE type = "StatusInquiryResponse" ->
            << [name |-> "Status", elem |-> ""], [name |-> "PaymentAmount", elem |-> ""],
               [name |-> "PaymentTotal", elem |-> ""], [name |-> "PaymentDate", elem |-> ""],
               [name |-> "Currency", elem |-> ""], [name |-> "NetTutar", elem |-> ""],
               [name |-> "KesintiTutari", elem |-> ""], [name |-> "Taksit", elem |-> ""],
               [name |-> "KartMarka", elem |-> ""], [name |-> "MaskedPan", elem |-> ""],
               [name |-> "OdemeTipi", elem |-> ""], [name |-> "TestMode", elem |-> ""],
               [name |-> "Returns", elem |-> ""], [name |-> "ErrNo", elem |-> ""],
               [name |-> "ErrMsg", elem |-> ""],
               [name |-> "SubmerchantPayments", elem |-> "SubmerchantPayment"] >>
      [] type = "SubmerchantPayment" ->
            << [name |-> "SubmerchantId", elem |-> ""],
               [name |-> "SubmerchantPrice", elem |-> ""],
               [name |-> "SubmerchantPayoutRate", elem |-> ""],
               [name |-> "SubmerchantPayoutAmount", elem |-> ""] >>
      [] type = "TransactionDetailsResponse" ->
            << [name |-> "Status", elem |-> ""],
               [name |-> "Transactions", elem |-> "Transaction"],
               [name |-> "ErrMsg", elem |-> ""] >>
      [] type = "Transaction" ->
            << [name |-> "IslemTipi", elem |-> ""], [name |-> "NetTutar", elem |-> ""],
               [name |-> "KesintiTutari", elem |-> ""], [name |-> "KesintiOrani", elem |-> ""],
               [name |-> "IslemTutari", elem |-> ""], [name |-> "OdemeTutari", elem |-> ""],
               [name |-> "IslemTarihi", elem |-> ""], [name |-> "ParaBirimi", elem |-> ""],
               [name |-> "Taksit", elem |-> ""], [name |-> "KartMarka", elem |-> ""],
               [name |-> "KartNo", elem |-> ""], [name |-> "SiparisNo", elem |-> ""],
               [name |-> "OdemeTipi", elem |-> ""] >>

\* The wire name the json tag gives a field of the decode targets.
WireName(name) ==
    CASE name = "Status" -> "status"
      [] name = "PaymentAmount" -> "payment_amount"
      [] name = "PaymentTotal" -> "payment_total"
      [] name = "PaymentDate" -> "payment_date"
      [] name = "Currency" -> "currency"
      [] name = "NetTutar" -> "net_tutar"
      [] name = "KesintiTutari" -> "kesinti_tutari"
      [] name = "Taksit" -> "taksit"
      [] name = "KartMarka" -> "kart_marka"
      [] name = "MaskedPan" -> "masked_pan"
      [] name = "OdemeTipi" -> "odeme_tipi"
      [] name = "TestMode" -> "test_mode"
      [] name = "Returns" -> "returns"
      [] name = "ErrNo" -> "err_no"
      [] name = "ErrMsg" -> "err_msg"
      [] name = "SubmerchantPayments" -> "submerchant_payments"
      [] name = "SubmerchantId" -> "submerchant_id"
      [] name = "SubmerchantPrice" -> "submerchant_price"
      [] name = "SubmerchantPayoutRate" -> "submerchant_payout_rate"
      [] name = "SubmerchantPayoutAmount" -> "submerchant_payout_amount"
      [] name = "Transactions" -> "transactions"
      [] name = "IslemTipi" -> "islem_tipi"
      [] name = "KesintiOrani" -> "kesinti_orani"
      [] name = "IslemTutari" -> "islem_tutari"
      [] name = "OdemeTutari" -> "odeme_tutari"
      [] name = "IslemTarihi" -> "islem_tarihi"
      [] name = "ParaBirimi" -> "para_birimi"
      [] name = "KartNo" -> "kart_no"
      [] name = "SiparisNo" -> "siparis_no"

\* The lower-case form of the names the model uses that hold an upper-case letter
\* (every other key of the model is lower case already): what strings.EqualFold
\* compares.
Fold(s) ==
    CASE s = "Status" -> "status"
      [] s = "STATUS" -> "status"
      [] s = "PaymentAmount" -> "paymentamount"
      [] s = "PaymentTotal" -> "paymenttotal"
      [] s = "PaymentDate" -> "paymentdate"
      [] s = "Currency" -> "currency"
      [] s = "NetTutar" -> "nettutar"
      [] s = "KesintiTutari" -> "kesintitutari"
      [] s = "Taksit" -> "taksit"
      [] s = "KartMarka" -> "kartmarka"
      [] s = "MaskedPan" -> "maskedpan"
      [] s = "OdemeTipi" -> "odemetipi"
      [] s = "TestMode" -> "testmode"
      [] s = "Returns" -> "returns"
      [] s = "ErrNo" -> "errno"
      [] s = "ErrMsg" -> "errmsg"
      [] s = "SubmerchantPayments" -> "submerchantpayments"
      [] s = "SubmerchantId" -> "submerchantid"
      [] s = "SubmerchantPrice" -> "submerchantprice"
      [] s = "SubmerchantPayoutRate" -> "submerchantpayoutrate"
      [] s = "SubmerchantPayoutAmount" -> "submerchantpayoutamount"
      [] s = "Transactions" -> "transactions"
      [] s = "IslemTipi" -> "islemtipi"
      [] s = "KesintiOrani" -> "kesintiorani"
      [] s = "IslemTutari" -> "islemtutari"
      [] s = "OdemeTutari" -> "odemetutari"
      [] s = "IslemTarihi" -> "islemtarihi"
      [] s = "ParaBirimi" -> "parabirimi"
      [] s = "KartNo" -> "kartno"
      [] s = "SiparisNo" -> "siparisno"
      [] OTHER -> s

\* The map entries decodeStructFromMap reads for a field: the struct carries no
\* mapstructure tag, so the key is the Go field name, looked up exactly and, when
\* absent, by strings.EqualFold over the map's keys.
EntriesFor(data, fieldName) ==
    IF \E e \in data : e[1] = fieldName
    THEN {e \in data : e[1] = fieldName}
    ELSE {e \in data : Fold(e[1]) = Fold(fieldName)}

RECURSIVE DecodeStruct(_, _)
RECURSIVE DecodeSlice(_, _)

\* The decoded value of one field and whether decoding it failed.  Without
\* WeaklyTypedInput a string field takes only a string, a slice field only a list.
\* A field with no entry keeps its zero value.
DecodeField(field, data) ==
    LET es == EntriesFor(data, field.name)
        val == (CHOOSE e \in es : TRUE)[2]
    IN  IF field.elem = ""
        THEN IF es = {} THEN [err |-> FALSE, v |-> ""]
             ELSE IF DOMAIN val = {"str"} THEN [err |-> FALSE, v |-> val.str]
             ELSE [err |-> TRUE, v |-> ""]
        ELSE IF es = {} THEN [err |-> FALSE, v |-> <<>>]
             ELSE IF DOMAIN val = {"list"} THEN DecodeSlice(field.elem, val.list)
             ELSE [err |-> TRUE, v |-> <<>>]

DecodeSlice(type, items) ==
    LET each == [i \in DOMAIN items |-> DecodeStruct(type, items[i])]
    IN  [err |-> \E i \in DOMAIN items : each[i].err,
         v |-> [i \in DOMAIN items |-> each[i].v]]

\* mapstructure.Decode(data, &result) for a result of struct type `type`: the
\* struct as a record from Go field name to decoded value, and whether any field
\* failed.
DecodeStruct(type, data) ==
    LET fields == StructFields(type)
        names == {fields[i].name : i \in DOMAIN fields}
        fieldOf(n) == CHOOSE f \in {fields[i] : i \in DOMAIN fields} : f.name = n
        each == [n \in names |-> DecodeField(fieldOf(n), data)]
    IN  [err |-> \E n \in names : each[n].err,
         v |-> [n \in names |-> each[n].v]]


(***************************************************************************)
(* Transport and the tail of each operation.                               *)
(***************************************************************************)
\* sendRequestPrepare rejecting a payload without a merchant ID before the round trip.
sendRequestPrepareValidating(p) ==
    LET m == JsonMarshal(p)
    IN  IF m.err # NoError THEN [err |-> m.err, body |-> Nil]
        ELSE IF p.v.MerchantID = "" THEN [err |-> "merchant_id is required", body |-> Nil]
        ELSE IF NewRequestErr(p.url) # NoError
             THEN [err |-> NewRequestErr(p.url), body |-> Nil]
             ELSE [err |-> NoError, body |-> m.body]

\* sendRequest up to its call of Do: json.Marshal, then http.NewRequest.
sendRequestPrepare(p) ==
    LET m == JsonMarshal(p)
    IN  IF m.err # NoError THEN [err |-> m.err, body |-> Nil]
        ELSE IF NewRequestErr(p.url) # NoError
             THEN [err |-> NewRequestErr(p.url), body |-> Nil]
             ELSE [err |-> NoError, body |-> m.body]

\* sendRequestReceive returning the zero envelope beside the error of json.Unmarshal.
sendRequestReceiveKeepingResult(reply) ==
    IF reply.doErr THEN [result |-> Nil, err |-> "transport error"]
    ELSE IF reply.readErr THEN [result |-> Nil, err |-> "unexpected EOF"]
    ELSE LET u == JsonUnmarshal(reply.body)
         IN  IF u.err # NoError
             THEN [result |-> [Status |-> "", Message |-> "", Data |-> {}], err |-> u.err]
             ELSE [result |-> u.result, err |-> NoError]

\* sendRequestReceive treating an HTTP status of 400 or more as an error.
sendRequestReceiveCheckingStatus(reply) ==
    IF reply.doErr THEN [result |-> Nil, err |-> "transport error"]
    ELSE IF reply.code >= 400 THEN [result |-> Nil, err |-> "unexpected HTTP status"]
    ELSE IF reply.readErr THEN [result |-> Nil, err |-> "unexpected EOF"]
    ELSE LET u == JsonUnmarshal(reply.body)
         IN  IF u.err # NoError THEN [result |-> Nil, err |-> u.err]
             ELSE [result |-> u.result, err |-> NoError]

\* sendRequest after Do has answered `reply`: the error of Do, of io.ReadAll or
\* of json.Unmarshal with a nil result, or the decoded envelope with a nil error.
\* The response's status code is never read.
sendRequestReceive(reply) ==
    IF reply.doErr THEN [result |-> Nil, err |-> "transport error"]
    ELSE IF reply.readErr THEN [result |-> Nil, err |-> "unexpected EOF"]
    ELSE LET u == JsonUnmarshal(reply.body)
         IN  IF u.err # NoError THEN [result |-> Nil, err |-> u.err]
             ELSE [result |-> u.result, err |-> NoError]

\* EnvelopeFinish refusing an envelope whose status is not "success".
EnvelopeFinishChecked(sr) ==
    IF sr.err = NoError /\ sr.result.Status # "success"
    THEN [result |-> Nil, err |-> "PayTR error: " \o sr.result.Message, decoded |-> FALSE]
    ELSE [result |-> sr.result, err |-> sr.err, decoded |-> FALSE]

\* The operations that return sendRequest's envelope and error as they are.
EnvelopeFinish(sr) == [result |-> sr.result, err |-> sr.err, decoded |-> FALSE]

\* MerchantStatusInquiryFinish without the check of the envelope's status.
MerchantStatusInquiryFinishUnchecked(sr) ==
    IF sr.err # NoError THEN [result |-> Nil, err |-> sr.err, decoded |-> FALSE]
    ELSE LET d == DecodeStruct("StatusInquiryResponse", sr.result.Data)
         IN  IF d.err
             THEN [result |-> Nil, err |-> "error decoding response", decoded |-> TRUE]
             ELSE [result |-> d.v, err |-> NoError, decoded |-> TRUE]

\* MerchantStatusInquiry after sendRequest returned sr.  `decoded` says whether
\* mapstructure.Decode was called on the envelope's data.
MerchantStatusInquiryFinish(sr) ==
    IF sr.err # NoError THEN [result |-> Nil, err |-> sr.err, decoded |-> FALSE]
    ELSE IF sr.result.Status # "success"
         THEN [result |-> Nil, err |-> "PayTR error: " \o sr.result.Message,
               decoded |-> FALSE]
         ELSE LET d == DecodeStruct("StatusInquiryResponse", sr.result.Data)
              IN  IF d.err
                  THEN [result |-> Nil, err |-> "error decoding response", decoded |-> TRUE]
                  ELSE [result |-> d.v, err |-> NoError, decoded |-> TRUE]

\* GetTransactionDetails after sendRequest returned sr: no status check.
GetTransactionDetailsFinish(sr) ==
    IF sr.err # NoError THEN [result |-> Nil, err |-> sr.err, decoded |-> FALSE]
    ELSE LET d == DecodeStruct("TransactionDetailsResponse", sr.result.Data)
         IN  IF d.err
             THEN [result |-> Nil, err |-> "error decoding response", decoded |-> TRUE]
             ELSE [result |-> d.v, err |-> NoError, decoded |-> TRUE]

\* What operation `op` returns once sendRequest has returned sr.
Finish(op, sr) ==
    CASE op = "MerchantStatusInquiry" -> MerchantStatusInquiryFinish(sr)
      [] op = "GetTransactionDetails" -> GetTransactionDetailsFinish(sr)
      [] OTHER -> EnvelopeFinish(sr)

(***************************************************************************)
(* Transport handles.  An interface value is two words: the dynamic type   *)
(* and the data pointer.                                                   *)
(***************************************************************************)
\* The &http.Client{Timeout: 10 * time.Second} NewService installs.
DefaultClient == [tab |-> "*http.Client", data |-> "default"]
\* The i-th handle a caller injects.
MockClient(i) == [tab |-> "*MockClient", data |-> "mock" \o Itoa(i)]
Handles == {DefaultClient} \cup {MockClient(i) : i \in 1..NumMocks}
NoHandle == [tab |-> "", data |-> ""]


(***************************************************************************)
(* Inputs.                                                                 *)
(***************************************************************************)
\* b, and b with one field replaced by each of that field's alternatives.
Variants(b, alt) ==
    {b} \cup UNION {{[b EXCEPT ![f] = x] : x \in alt[f]} : f \in DOMAIN alt}

SampleCommon ==
    [ZeroCommon EXCEPT !.MerchantID = "test_merchant", !.UserIP = "1.2.3.4",
                       !.MerchantOid = "test_order_123", !.Email = "a@b.c",
                       !.PaymentAmount = Whole(100), !.PaymentType = "card",
                       !.Currency = "TL", !.TestMode = "1", !.NonThreeD = "0",
                       !.MerchantOkURL = "https://ok", !.MerchantFailURL = "https://fail",
                       !.UserName = "Ada", !.UserAddress = "Street 1",
                       !.UserPhone = "555", !.UserBasket = "[]", !.DebugOn = "1",
                       !.ClientLang = "tr", !.InstallmentCount = "0"]

SampleNewCard ==
    SampleCommon @@
    [CardOwner |-> "Ada L", CardNumber |-> "4355084355084358", ExpiryMonth |-> "12",
     ExpiryYear |-> "30", CVV |-> "000", CardType |-> "visa", StoreCard |-> "0"]

SampleSavedCard ==
    SampleCommon @@ [UToken |-> "u1", CToken |-> "c1", CVV |-> "000", RecurringPayment |-> "0"]

SampleAddNewCard ==
    [ZeroAddNewCardRequest EXCEPT
        !.UserID = "user1", !.CardOwner = "Ada L", !.CardNumber = "4355084355084358",
        !.ExpiryMonth = "12", !.ExpiryYear = "30", !.CVV = "000", !.CardType = "visa",
        !.UserIP = "1.2.3.4", !.MerchantOid = "test_order_456", !.Email = "a@b.c",
        !.UserName = "Ada", !.UserAddress = "Street 1", !.UserPhone = "555",
        !.MerchantOkURL = "https://ok", !.MerchantFailURL = "https://fail",
        !.ClientLang = "en", !.Currency = "USD", !.PaymentAmount = Whole(50)]

SampleRefund ==
    [MerchantOid |-> "test_order_789", ReturnAmount |-> Whole(50), ReferenceNo |-> ""]

\* Amounts: whole, just below a whole, exact rounding ties, zero, negative, and the
\* float64 values that are no number.
SampleAmounts ==
    {Whole(0), Whole(1), Whole(50), Whole(100), JustBelow(100), JustBelow(1),
     PlusEighth(0), PlusThreeEighths(0), PlusEighth(100), Fin(TRUE, 0), Fin(TRUE, 1),
     Fin(TRUE, AmountScale)}
NonNumbers == {NaN, PosInf, NegInf}

\* The inputs of the sequential client: a sample of each request, the empty request,
\* an amount JSON cannot carry, a merchant ID and a token supplied by the caller.
SeqInputs ==
    [newCard |-> {SampleNewCard, ZeroNewCardPaymentRequest,
                  [SampleNewCard EXCEPT !.PaymentAmount = NaN],
                  [SampleNewCard EXCEPT !.PaymentAmount = JustBelow(100)],
                  [SampleNewCard EXCEPT !.MerchantID = "other_merchant",
                                        !.PayTRToken = "forged"]},
     saved |-> {SampleSavedCard, ZeroSavedCardPaymentRequest,
                [SampleSavedCard EXCEPT !.PaymentAmount = PosInf],
                [SampleSavedCard EXCEPT !.RecurringPayment = "1", !.MerchantID = ""]},
     recurring |-> {SampleSavedCard, ZeroSavedCardPaymentRequest,
                    [SampleSavedCard EXCEPT !.PaymentAmount = NegInf],
                    [SampleSavedCard EXCEPT !.RecurringPayment = "1"]},
     refund |-> {SampleRefund, [SampleRefund EXCEPT !.ReferenceNo = "ref1"],
                 [SampleRefund EXCEPT !.ReturnAmount = NaN],
                 [MerchantOid |-> "", ReturnAmount |-> Whole(0), ReferenceNo |-> ""]},
     status |-> {[MerchantOid |-> "test_order_789"], [MerchantOid |-> ""]},
     report |-> {[StartDate |-> "2024-01-01", EndDate |-> "2024-01-03", Dummy |-> 0],
                 [StartDate |-> "2024-01-01", EndDate |-> "2024-01-03", Dummy |-> 1],
                 [StartDate |-> "", EndDate |-> "", Dummy |-> 0]},
     addCard |-> {SampleAddNewCard, ZeroAddNewCardRequest,
                  [SampleAddNewCard EXCEPT !.PaymentAmount = NaN, !.Currency = "TL"]},
     bin |-> {[binNumber |-> "123456"], [binNumber |-> ""]},
     list |-> {[utoken |-> "u1"], [utoken |-> ""]},
     delete |-> {[utoken |-> "u1", ctoken |-> "c1"], [utoken |-> "", ctoken |-> ""]}]

\* The inputs of concurrent callers: one sample request per operation.
ConcInputs ==
    [newCard |-> {SampleNewCard},
     saved |-> {SampleSavedCard},
     recurring |-> {SampleSavedCard},
     refund |-> {SampleRefund},
     status |-> {[MerchantOid |-> "test_order_789"]},
     report |-> {[StartDate |-> "2024-01-01", EndDate |-> "2024-01-03", Dummy |-> 0]},
     addCard |-> {SampleAddNewCard},
     bin |-> {[binNumber |-> "123456"]},
     list |-> {[utoken |-> "u1"]},
     delete |-> {[utoken |-> "u1", ctoken |-> "c1"]}]

\* Alternatives of the fields a payment token is computed over, and of two it is not.
SignedAlternatives ==
    [UserIP |-> {"1.2.3.5", ""}, MerchantOid |-> {"test_order_124", "4test_order_123"},
     Email |-> {"b@b.c", "a@b.c1"},
     PaymentAmount |-> (SampleAmounts \cup NonNumbers) \ {Whole(100)},
     PaymentType |-> {"eft", "card0"}, InstallmentCount |-> {"3", ""},
     Currency |-> {"USD", "TL1"}, TestMode |-> {"0", ""}, NonThreeD |-> {"1", ""},
     MerchantID |-> {"other_merchant", ""}, PayTRToken |-> {"forged"}]

\* Alternatives of payload fields no token is computed over.
UnsignedCardAlternatives ==
    [CardNumber |-> {"5555444433331111"}, ExpiryMonth |-> {"01"}, CVV |-> {"123"},
     StoreCard |-> {"1"}, UserBasket |-> {"[[\"Book\", \"100.00\", 1]]"},
     MerchantOkURL |-> {"https://ok2"}]
UnsignedSavedAlternatives == [UToken |-> {"u2"}, CToken |-> {"c2"}]

\* Requests whose adjacent signed fields split the same characters differently.
ShiftedPayments(b) ==
    { [b EXCEPT !.UserIP = "1.2.3.", !.MerchantOid = "4test_order_123"],
      [b EXCEPT !.Email = "a@b.c1", !.PaymentAmount = Whole(0)],
      [b EXCEPT !.Email = "a@b.c", !.PaymentAmount = Whole(10)],
      [b EXCEPT !.PaymentType = "card0", !.InstallmentCount = ""],
      [b EXCEPT !.Currency = "TL1", !.TestMode = ""] }

\* The inputs the token generator is examined on.
TokenInputs ==
    [newCard |-> Variants(SampleNewCard, SignedAlternatives)
                 \cup ShiftedPayments(SampleNewCard)
                 \cup Variants(SampleNewCard, UnsignedCardAlternatives),
     saved |-> Variants(SampleSavedCard,
                        [MerchantOid |-> {"test_order_124"},
                         PaymentAmount |-> {JustBelow(100), Whole(50)}])
               \cup Variants(SampleSavedCard, UnsignedSavedAlternatives),
     recurring |-> Variants(SampleSavedCard,
                            [UserIP |-> {"1.2.3.5"},
                             PaymentAmount |-> {JustBelow(100), PlusEighth(0)}]),
     refund |-> Variants(SampleRefund,
                         [MerchantOid |-> {"test_order_78", "test_order_7891"},
                          ReturnAmount |-> (SampleAmounts \cup NonNumbers) \ {Whole(50)},
                          ReferenceNo |-> {"ref1"}])
                \cup {[SampleRefund EXCEPT !.MerchantOid = "test_order_7895",
                                            !.ReturnAmount = Whole(0)]},
     status |-> {[MerchantOid |-> x] : x \in {"test_order_789", "test_order_78", ""}},
     report |-> {[StartDate |-> a, EndDate |-> b, Dummy |-> 0] :
                    a \in {"2024-01-01", "2024-01-0"}, b \in {"2024-01-03", "12024-01-03"}},
     addCard |-> Variants(SampleAddNewCard,
                          [UserIP |-> {"1.2.3.5"}, MerchantOid |-> {"test_order_457"},
                           Email |-> {"b@b.c"}, PaymentAmount |-> {NaN, Whole(1)},
                           Currency |-> {"TL"}]),
     bin |-> {[binNumber |-> x] : x \in {"123456", "12345", ""}},
     list |-> {[utoken |-> x] : x \in {"u1", "u2", ""}},
     delete |-> {[utoken |-> u, ctoken |-> c] :
                    u \in {"u1", "ab", "a"}, c \in {"c1", "c", "bc"}}]

\* Data maps a gateway may answer with.
DataNone == {}
DataStatus ==
    { <<"status", [str |-> "success"]>>, <<"payment_amount", [str |-> "100.00"]>>,
      <<"currency", [str |-> "TL"]>>, <<"net_tutar", [str |-> "97.00"]>>,
      <<"submerchant_payments",
        [list |-> << { <<"submerchant_id", [str |-> "sm1"]>>,
                       <<"submerchant_price", [str |-> "10.00"]>> } >>]>> }
DataReport ==
    { <<"status", [str |-> "success"]>>,
      <<"transactions",
        [list |-> << { <<"islem_tipi", [str |-> "S"]>>, <<"taksit", [str |-> "0"]>>,
                       <<"siparis_no", [str |-> "test_order_789"]>> } >>]>> }
DataMistyped ==
    { <<"status", [num |-> 1]>>, <<"transactions", [str |-> "none"]>> }
DataFailed ==
    { <<"status", [str |-> "failed"]>>, <<"err_msg", [str |-> "no such order"]>> }
DataSamples == {DataNone, DataStatus, DataReport, DataMistyped, DataFailed}

\* The replies a transport may give the sequential client.
SeqReplies ==
    {Reply(TRUE, 0, FALSE, InvalidBody)}
    \cup {Reply(FALSE, code, TRUE, InvalidBody) : code \in {200}}
    \cup {Reply(FALSE, code, FALSE, InvalidBody) : code \in {200, 500}}
    \cup {Reply(FALSE, code, FALSE, Envelope("success", "ok", d)) :
             code \in {200, 500}, d \in DataSamples}
    \cup {Reply(FALSE, code, FALSE, Envelope(st, "order not found", d)) :
             code \in {200, 500}, st \in {"failed", "error", "Success", ""},
             d \in {DataNone, DataStatus, DataMistyped}}

\* The replies a transport may give concurrent callers.
ConcReplies ==
    {Reply(TRUE, 0, FALSE, InvalidBody),
     Reply(FALSE, 200, FALSE, Envelope("success", "ok", DataStatus)),
     Reply(FALSE, 200, FALSE, Envelope("failed", "order not found", DataNone))}

\* The one reply the token generator's examination needs.
TokenReplies == {Reply(FALSE, 200, FALSE, Envelope("success", "ok", DataNone))}


(***************************************************************************)
(* The client instance and its callers.                                    *)
(*   config  s.config: the credentials NewService was given                *)
(*   client  s.client: the transport handle, two words                     *)
(*   call    per calling goroutine, the Service call it is in:             *)
(*             pc       idle | ready (sendRequest is about to evaluate     *)
(*                      s.client.Do) | loading (type word loaded) | done   *)
(*                      (returned to the caller) | crashed | setTab |      *)
(*                      setData (SetHTTPClient about to store a word)      *)
(*             op, req  the operation and the caller's arguments           *)
(*             p        the payload handed to sendRequest                  *)
(*             body     the JSON object posted                             *)
(*             via      the handle whose Do was invoked                    *)
(*             reply    what Do answered                                   *)
(*             result, err   what the operation returned                   *)
(*             doCalls  how many times the call invoked Do                 *)
(*             decoded  whether mapstructure.Decode ran                    *)
(***************************************************************************)
VARIABLES config, client, call

vars == <<config, client, call>>

Goroutines == {"g1", "g2"}

IdleCall ==
    [pc |-> "idle", op |-> "", req |-> Nil, p |-> Nil, body |-> Nil, via |-> NoHandle,
     reply |-> Nil, result |-> Nil, err |-> NoError, doCalls |-> 0, decoded |-> FALSE]

\* NewService(config).
Init ==
    /\ config \in Configs
    /\ client = DefaultClient
    /\ call = [g \in Goroutines |-> IdleCall]

\* An operation from its entry to the point where sendRequest evaluates s.client:
\* the payload is shaped and signed, marshalled, and the POST request is built.
\* A failure of either returns the error at once, before any round trip.
Begin(g, op, req, p) ==
    /\ call[g].pc = "idle"
    /\ LET prep == sendRequestPrepare(p)
           fin == Finish(op, [result |-> Nil, err |-> prep.err])
       IN  call' = [call EXCEPT ![g] =
                IF prep.err # NoError
                THEN [IdleCall EXCEPT !.pc = "done", !.op = op, !.req = req, !.p = p,
                                      !.result = fin.result, !.err = fin.err]
                ELSE [IdleCall EXCEPT !.pc = "ready", !.op = op, !.req = req, !.p = p,
                                      !.body = prep.body]]
    /\ UNCHANGED <<config, client>>

CallNewCardPayment(g, req) == Begin(g, "NewCardPayment", req, NewCardPayment(config, req))
CallSavedCardPayment(g, req) == Begin(g, "SavedCardPayment", req, SavedCardPayment(config, req))
CallRecurringPayment(g, req) == Begin(g, "RecurringPayment", req, RecurringPayment(config, req))
CallRefundPayment(g, req) == Begin(g, "RefundPayment", req, RefundPayment(config, req))
CallMerchantStatusInquiry(g, req) ==
    Begin(g, "MerchantStatusInquiry", req, StatusInquiryShape(config, req))
CallGetTransactionDetails(g, req) ==
    Begin(g, "GetTransactionDetails", req, TransactionDetailsShape(config, req))
CallAddNewCard(g, req) == Begin(g, "AddNewCard", req, AddNewCard(config, req))
CallGetBinDetails(g, req) == Begin(g, "GetBinDetails", req, GetBinDetails(config, req))
CallGetSavedCards(g, req) == Begin(g, "GetSavedCards", req, GetSavedCards(config, req))
CallDeleteSavedCard(g, req) == Begin(g, "DeleteSavedCard", req, DeleteSavedCard(config, req))

\* s.client.Do(httpReq), first half: the interface's type word is loaded.
LoadClient(g) ==
    /\ call[g].pc = "ready"
    /\ call' = [call EXCEPT ![g].pc = "loading", ![g].via = [tab |-> client.tab, data |-> ""]]
    /\ UNCHANGED <<config, client>>

\* Do always invoked on the client NewService built, whatever was injected.
DoOnDefaultClient(g, reply) ==
    /\ call[g].pc = "loading"
    /\ LET fin == Finish(call[g].op, sendRequestReceive(reply))
       IN  call' = [call EXCEPT ![g] =
                [@ EXCEPT !.pc = "done", !.via = DefaultClient, !.reply = reply,
                          !.doCalls = @ + 1, !.result = fin.result, !.err = fin.err,
                          !.decoded = fin.decoded]]
    /\ UNCHANGED <<config, client>>

\* s.client.Do(httpReq), second half, and the rest of the operation: the data word
\* is loaded, Do is invoked once on the handle and answers `reply`, the body is
\* read and decoded, and the operation returns.  A handle whose two words come
\* from different stores is no value of any type: the call does not return.
Do(g, reply) ==
    /\ call[g].pc = "loading"
    /\ LET handle == [tab |-> call[g].via.tab, data |-> client.data]
           fin == Finish(call[g].op, sendRequestReceive(reply))
       IN  call' = [call EXCEPT ![g] =
                IF handle \notin Handles
                THEN [@ EXCEPT !.pc = "crashed", !.via = handle, !.doCalls = @ + 1]
                ELSE [@ EXCEPT !.pc = "done", !.via = handle, !.reply = reply,
                               !.doCalls = @ + 1, !.result = fin.result, !.err = fin.err,
                               !.decoded = fin.decoded]]
    /\ UNCHANGED <<config, client>>

\* The caller takes the result and is free to call again.
Return(g) ==
    /\ call[g].pc = "done"
    /\ call' = [call EXCEPT ![g] = IdleCall]
    /\ UNCHANGED <<config, client>>

\* SetHTTPClient(h) is entered.
SetHTTPClientCall(g, h) ==
    /\ call[g].pc = "idle"
    /\ call' = [call EXCEPT ![g] =
            [IdleCall EXCEPT !.pc = "setTab", !.op = "SetHTTPClient", !.req = h]]
    /\ UNCHANGED <<config, client>>

\* s.client = client, first word.
SetHTTPClientStoreTab(g) ==
    /\ call[g].pc = "setTab"
    /\ client' = [client EXCEPT !.tab = call[g].req.tab]
    /\ call' = [call EXCEPT ![g].pc = "setData"]
    /\ UNCHANGED config

\* s.client = client, second word; SetHTTPClient returns.
SetHTTPClientStoreData(g) ==
    /\ call[g].pc = "setData"
    /\ client' = [client EXCEPT !.data = call[g].req.data]
    /\ call' = [call EXCEPT ![g] = IdleCall]
    /\ UNCHANGED config

\* A goroutine enters one of the ten operations with arguments drawn from I.
OperationCalls(g, I) ==
    \/ \E req \in I.newCard : CallNewCardPayment(g, req)
    \/ \E req \in I.saved : CallSavedCardPayment(g, req)
    \/ \E req \in I.recurring : CallRecurringPayment(g, req)
    \/ \E req \in I.refund : CallRefundPayment(g, req)
    \/ \E req \in I.status : CallMerchantStatusInquiry(g, req)
    \/ \E req \in I.report : CallGetTransactionDetails(g, req)
    \/ \E req \in I.addCard : CallAddNewCard(g, req)
    \/ \E req \in I.bin : CallGetBinDetails(g, req)
    \/ \E req \in I.list : CallGetSavedCards(g, req)
    \/ \E req \in I.delete : CallDeleteSavedCard(g, req)

\* A call in flight moves on, the transport answering from R.
RoundTrip(g, R) ==
    \/ LoadClient(g)
    \/ \E reply \in R : Do(g, reply)
    \/ Return(g)

SetClient(g) ==
    \/ \E h \in Handles : SetHTTPClientCall(g, h)
    \/ SetHTTPClientStoreTab(g)
    \/ SetHTTPClientStoreData(g)

\* One caller, every request and every reply of the samples.
Next ==
    \E g \in {"g1"} : OperationCalls(g, SeqInputs) \/ RoundTrip(g, SeqReplies) \/ SetClient(g)

Spec == Init /\ [][Next]_vars

\* Two callers without coordination.
NextConc ==
    \E g \in Goroutines :
        OperationCalls(g, ConcInputs) \/ RoundTrip(g, ConcReplies) \/ SetClient(g)

SpecConc == Init /\ [][NextConc]_vars

\* Two callers signing requests from the token generator's inputs.
InitToken ==
    /\ config = [MerchantID |-> "test_merchant", MerchantKey |-> "test_key",
                 MerchantSalt |-> "test_salt"]
    /\ client = DefaultClient
    /\ call = [g \in Goroutines |-> IdleCall]

NextToken ==
    \E g \in Goroutines : OperationCalls(g, TokenInputs) \/ RoundTrip(g, TokenReplies)

SpecToken == InitToken /\ [][NextToken]_vars

\* Two callers of the same requests, answered in every way of the samples.
NextReplies ==
    \E g \in Goroutines : OperationCalls(g, ConcInputs) \/ RoundTrip(g, SeqReplies)

SpecReplies == InitToken /\ [][NextReplies]_vars


(***************************************************************************)
(* Properties.                                                             *)
(***************************************************************************)
PaymentOps == {"NewCardPayment", "SavedCardPayment", "RecurringPayment", "AddNewCard"}
SecondaryOps ==
    {"RefundPayment", "MerchantStatusInquiry", "GetTransactionDetails", "GetBinDetails",
     "GetSavedCards", "DeleteSavedCard"}
Operations == PaymentOps \cup SecondaryOps

\* The calls whose payload went out on the wire.
Posted == {g \in Goroutines : call[g].op \in Operations /\ call[g].body # Nil}

\* The token the gateway recomputes for a posted payment payload.
ExpectedPaymentToken(b) ==
    Base64(HmacSha256(config.MerchantKey,
        config.MerchantID \o b.user_ip \o b.merchant_oid \o b.email
            \o FormatFloat(b.payment_amount) \o b.payment_type \o b.installment_count
            \o b.currency \o b.test_mode \o b.non_3d \o config.MerchantSalt))

\* C1: in the posted payload of NewCardPayment, SavedCardPayment, RecurringPayment
\* and AddNewCard, paytr_token is base64(HMAC-SHA256(merchant key, merchantID +
\* userIP + merchantOid + email + two-decimal amount + paymentType +
\* installmentCount + currency + testMode + nonThreeD + salt)), the merchant ID
\* being the configured one.
C1_PaymentToken ==
    \A g \in Posted :
        call[g].op \in PaymentOps =>
            call[g].body.paytr_token = ExpectedPaymentToken(call[g].body)

\* A payment posted with a merchant ID of the caller's that is not the configured one.
C1_Witness ==
    \E g \in Posted :
        /\ call[g].op = "NewCardPayment"
        /\ call[g].pc = "done"
        /\ call[g].body.merchant_id = "other_merchant"
        /\ call[g].body.paytr_token = ExpectedPaymentToken(call[g].body)

\* The string a secondary endpoint signs before the salt, read off its posted payload.
ExpectedSimpleInput(op, b) ==
    CASE op = "RefundPayment" ->
            config.MerchantID \o b.merchant_oid \o FormatFloat(b.return_amount)
      [] op = "MerchantStatusInquiry" -> config.MerchantID \o b.merchant_oid
      [] op = "GetTransactionDetails" -> config.MerchantID \o b.start_date \o b.end_date
      [] op = "GetBinDetails" -> b.bin_number \o config.MerchantID
      [] op = "GetSavedCards" -> b.utoken
      [] op = "DeleteSavedCard" -> b.utoken \o b.ctoken

AmountCalls ==
    {g \in Goroutines : call[g].op \in PaymentOps \cup {"RefundPayment"} /\ call[g].p # Nil}

AmountOf(c) == IF c.op = "RefundPayment" THEN c.p.v.ReturnAmount ELSE c.p.v.PaymentAmount

\* The decimal text of h hundredths, with its sign.
TwoDecimals(neg, h) ==
    (IF neg THEN "-" ELSE "") \o Itoa(h \div 100) \o "."
        \o DigitChar[((h % 100) \div 10) + 1] \o DigitChar[(h % 10) + 1]

\* h hundredths is a hundredth nearest the amount a.
Nearest(a, h) ==
    LET d == 100 * a.mag - h * AmountScale
    IN  2 * (IF d < 0 THEN -d ELSE d) <= AmountScale

\* The two hundredths around the amount a.
Around(a) == LET q == (100 * a.mag) \div AmountScale IN {q, q + 1}

\* The token of call c is the one computed over an input whose amount reads `text`.
RenderedAs(c, text) ==
    LET v == c.p.v
        input == IF c.op = "RefundPayment"
                 THEN config.MerchantID \o v.MerchantOid \o text
                 ELSE config.MerchantID \o v.UserIP \o v.MerchantOid \o v.Email \o text
                          \o v.PaymentType \o v.InstallmentCount \o v.Currency
                          \o v.TestMode \o v.NonThreeD
    IN  v.PayTRToken = Base64(HmacSha256(config.MerchantKey, input \o config.MerchantSalt))

\* C3 as stated: every amount in a token input, whatever the float64, reads as a
\* nearest hundredth with exactly two digits after a '.'.
C3_Original ==
    \A g \in AmountCalls :
        \E h \in Around(AmountOf(call[g])) :
            /\ Nearest(AmountOf(call[g]), h)
            /\ RenderedAs(call[g], TwoDecimals(AmountOf(call[g]).neg, h))

\* The texts an amount may be rendered as.
Renderings(a) == {TwoDecimals(a.neg, h) : h \in Around(a)} \cup {"NaN", "+Inf", "-Inf"}

\* C3 (amended): every finite amount in a token input reads as a nearest hundredth
\* with exactly two digits after a '.' (100 and the amount just below 100 both read
\* "100.00"); NaN and the infinities read "NaN", "+Inf", "-Inf"; and the payment
\* scheme and the refund scheme render any given amount identically.
C3_AmountRendering ==
    /\ \A g \in AmountCalls :
          LET c == call[g]
              a == AmountOf(c)
          IN  /\ IsFinite(a) =>
                    \E h \in Around(a) :
                        Nearest(a, h) /\ RenderedAs(c, TwoDecimals(a.neg, h))
              /\ a \in {Whole(100), JustBelow(100)} => RenderedAs(c, "100.00")
              /\ a = NaN => RenderedAs(c, "NaN")
              /\ a = PosInf => RenderedAs(c, "+Inf")
              /\ a = NegInf => RenderedAs(c, "-Inf")
    /\ \A g1, g2 \in AmountCalls :
          AmountOf(call[g1]) = AmountOf(call[g2]) =>
              \A text \in Renderings(AmountOf(call[g1])) :
                  RenderedAs(call[g1], text) <=> RenderedAs(call[g2], text)

\* A payment and a refund of the amount just below 100, both signed over "100.00".
C3_Witness ==
    /\ call["g1"].op = "NewCardPayment" /\ call["g1"].pc = "done"
    /\ call["g2"].op = "RefundPayment" /\ call["g2"].pc = "done"
    /\ AmountOf(call["g1"]) = JustBelow(100)
    /\ AmountOf(call["g2"]) = JustBelow(100)
    /\ RenderedAs(call["g1"], "100.00")
    /\ RenderedAs(call["g2"], "100.00")

\* The calls that have computed a token.
Signed == {g \in Goroutines : call[g].op \in Operations /\ call[g].p # Nil}

\* The signed fields of a call in their order, the amount as the float64 it is.
SignedValues(c) ==
    LET v == c.p.v
    IN  CASE c.op \in PaymentOps ->
                <<v.UserIP, v.MerchantOid, v.Email, v.PaymentAmount, v.PaymentType,
                  v.InstallmentCount, v.Currency, v.TestMode, v.NonThreeD>>
          [] c.op = "RefundPayment" -> <<v.MerchantOid, v.ReturnAmount>>
          [] c.op = "MerchantStatusInquiry" -> <<v.MerchantOid>>
          [] c.op = "GetTransactionDetails" -> <<v.StartDate, v.EndDate>>
          [] c.op = "GetBinDetails" -> <<v.BinNumber>>
          [] c.op = "GetSavedCards" -> <<v.UToken>>
          [] c.op = "DeleteSavedCard" -> <<v.UToken, v.CToken>>

\* The signed fields of a call as they enter the token input: the amount as text.
SignedTexts(c) ==
    LET t == SignedValues(c)
    IN  CASE c.op \in PaymentOps -> [t EXCEPT ![4] = FormatFloat(t[4])]
          [] c.op = "RefundPayment" -> [t EXCEPT ![2] = FormatFloat(t[2])]
          [] OTHER -> t

\* The positions at which two tuples of equal length differ.
Differing(s, t) == {i \in DOMAIN s : s[i] # t[i]}

\* C4 as stated: two requests to one operation that differ in exactly one signed
\* field get different tokens.
C4_Original ==
    \A g1, g2 \in Signed :
        ( /\ call[g1].op = call[g2].op
          /\ Cardinality(Differing(SignedValues(call[g1]), SignedValues(call[g2]))) = 1 )
        => call[g1].p.v.PayTRToken # call[g2].p.v.PayTRToken

\* C4 (amended): two requests to one operation that differ in exactly one signed
\* field, the amount being compared as its two-decimal text, get different tokens.
C4_OneFieldChangesToken ==
    \A g1, g2 \in Signed :
        ( /\ call[g1].op = call[g2].op
          /\ Cardinality(Differing(SignedTexts(call[g1]), SignedTexts(call[g2]))) = 1 )
        => call[g1].p.v.PayTRToken # call[g2].p.v.PayTRToken

\* Two payments that differ in the email alone and are signed differently.
C4_Witness ==
    /\ call["g1"].op = "NewCardPayment" /\ call["g2"].op = "NewCardPayment"
    /\ call["g1"].pc = "done" /\ call["g2"].pc = "done"
    /\ Differing(SignedTexts(call["g1"]), SignedTexts(call["g2"])) = {3}
    /\ call["g1"].p.v.PayTRToken # call["g2"].p.v.PayTRToken

\* C5 as stated: two requests to one operation whose signed fields differ never
\* get the same token input.
C5_Original ==
    \A g1, g2 \in Signed :
        ( /\ call[g1].op = call[g2].op
          /\ SignedTexts(call[g1]) # SignedTexts(call[g2]) )
        => call[g1].p.v.PayTRToken # call[g2].p.v.PayTRToken

\* C5 (amended): two requests to one operation whose signed fields differ and
\* have, field by field, the same lengths never get the same token input.
C5_FixedFormatUnambiguous ==
    \A g1, g2 \in Signed :
        LET s == SignedTexts(call[g1])
            t == SignedTexts(call[g2])
        IN  ( /\ call[g1].op = call[g2].op
              /\ s # t
              /\ \A i \in DOMAIN s : Len(s[i]) = Len(t[i]) )
            => call[g1].p.v.PayTRToken # call[g2].p.v.PayTRToken

\* Two deletes of equal field lengths, different in both fields and signed differently.
C5_Witness ==
    /\ call["g1"].op = "DeleteSavedCard" /\ call["g2"].op = "DeleteSavedCard"
    /\ call["g1"].req = [utoken |-> "u1", ctoken |-> "c1"]
    /\ call["g2"].req = [utoken |-> "ab", ctoken |-> "bc"]
    /\ call["g1"].p.v.PayTRToken # call["g2"].p.v.PayTRToken


\* The calls that have returned to their caller.
Returned == {g \in Goroutines : call[g].op \in Operations /\ call[g].pc = "done"}

\* The call's round trip succeeded and the body parsed into an envelope.
GotEnvelope(c) ==
    /\ c.reply # Nil
    /\ ~c.reply.doErr
    /\ ~c.reply.readErr
    /\ c.reply.body.valid

\* C6: MerchantStatusInquiry, given an envelope whose status is not exactly
\* "success", returns no result and an error carrying the envelope's message, and
\* never decodes the data; data is decoded only once the status check has passed.
C6_StatusInquiryShortCircuit ==
    \A g \in Returned :
        LET c == call[g] IN
        c.op = "MerchantStatusInquiry" =>
            /\ (GotEnvelope(c) /\ c.reply.body.status # "success") =>
                  /\ c.result = Nil
                  /\ c.err = "PayTR error: " \o c.reply.body.message
                  /\ ~c.decoded
            /\ c.decoded => (GotEnvelope(c) /\ c.reply.body.status = "success")

\* A status inquiry answered "failed" with data that would decode, and refused.
C6_Witness ==
    \E g \in Returned :
        /\ call[g].op = "MerchantStatusInquiry"
        /\ GotEnvelope(call[g])
        /\ call[g].reply.body.status = "failed"
        /\ call[g].reply.body.data = DataStatus
        /\ call[g].err = "PayTR error: order not found"
        /\ ~call[g].decoded

\* C7: answered with an envelope whose status is "success", every operation
\* returns a nil error and a result whose Status is "success", whatever the
\* request and whatever the envelope's data.
C7_SuccessEnvelopeGivesSuccess ==
    \A g \in Returned :
        LET c == call[g] IN
        (GotEnvelope(c) /\ c.reply.body.status = "success") =>
            /\ c.err = NoError
            /\ c.result # Nil
            /\ c.result.Status = "success"

\* The outcome of a returned call is an error and no result.
Failed(c) == c.err # NoError /\ c.result = Nil

\* C8: each transport failure (payload serialization, request construction, Do,
\* body read, response JSON) makes the operation return an error with no result,
\* and an operation returns either a result or an error, never both nor neither.
C8_ErrorOrResult ==
    \A g \in Returned :
        LET c == call[g] IN
        /\ (c.result # Nil /\ c.err = NoError) \/ (c.result = Nil /\ c.err # NoError)
        /\ JsonMarshal(c.p).err # NoError => Failed(c)
        /\ NewRequestErr(c.p.url) # NoError => Failed(c)
        /\ (c.reply # Nil /\ c.reply.doErr) => Failed(c)
        /\ (c.reply # Nil /\ ~c.reply.doErr /\ c.reply.readErr) => Failed(c)
        /\ (c.reply # Nil /\ ~c.reply.doErr /\ ~c.reply.readErr /\ ~c.reply.body.valid)
              => Failed(c)

\* A transaction report whose response body is no JSON: an error and no result.
C8_Witness ==
    \E g \in Returned :
        /\ call[g].op = "GetTransactionDetails"
        /\ call[g].reply # Nil
        /\ ~call[g].reply.doErr /\ ~call[g].reply.readErr /\ ~call[g].reply.body.valid
        /\ Failed(call[g])

Storing(g) == call[g].pc \in {"setTab", "setData"}

\* Goroutine g is inside sendRequest with a load of s.client pending.
Loading(g) == call[g].pc \in {"ready", "loading"}

\* No two goroutines have conflicting accesses to s.client pending together.
RaceFree ==
    \A g, h \in Goroutines :
        (g # h /\ Storing(g)) => ~(Storing(h) \/ Loading(h))

\* Every call of an operation sends what it would send alone, on a handle some
\* caller installed, and returns what that handle's reply determines.
AsAlone ==
    \A g \in Goroutines :
        LET c == call[g] IN
        c.op \in Operations =>
            /\ c.pc # "crashed"
            /\ c.pc = "done" =>
                  \/ c.reply = Nil /\ sendRequestPrepare(c.p).err # NoError
                  \/ /\ c.reply # Nil
                     /\ c.via \in Handles
                     /\ c.body = sendRequestPrepare(c.p).body
                     /\ LET fin == Finish(c.op, sendRequestReceive(c.reply))
                        IN  c.result = fin.result /\ c.err = fin.err

\* C10: no call on a client instance changes the credentials or the transport
\* handle NewService installed, so concurrent calls of the Service interface are
\* race-free and each gets the outbound request and the result it gets alone.
C10_ConcurrentCallsIndependent ==
    /\ client = DefaultClient
    /\ RaceFree
    /\ AsAlone


\* Goroutine g's call of SetHTTPClient returns in this step.
SetHTTPClientReturns(g) ==
    /\ call[g].op = "SetHTTPClient"
    /\ call[g].pc = "setData"
    /\ call'[g].pc = "idle"

\* C11: once SetHTTPClient(c) has returned, the caller's operations run Do on c,
\* not on the client NewService built nor on a handle injected earlier, until
\* SetHTTPClient is called again; SetHTTPClient leaves the credentials unchanged.
C11_InjectedClientCarriesRequests ==
    /\ [][\A g \in Goroutines :
            SetHTTPClientReturns(g) => (client' = call[g].req /\ config' = config)]_vars
    /\ [][client' # client => \E g \in Goroutines : Storing(g) /\ call'[g] # call[g]]_vars
    /\ [](\A g \in Goroutines :
            (call[g].op \in Operations /\ call[g].doCalls > 0) => call[g].via = client)

\* An operation went out on the second injected client, after the handle was replaced.
C11_Witness ==
    \E g \in Returned :
        /\ call[g].reply # Nil
        /\ call[g].via = MockClient(2)
        /\ client = MockClient(2)
        /\ client # DefaultClient


\* C12: the payload of RefundPayment, MerchantStatusInquiry, GetTransactionDetails,
\* GetBinDetails, GetSavedCards and DeleteSavedCard carries the configured merchant
\* ID as merchant_id, whatever the caller's arguments are.
C12_MerchantIDInjected ==
    \A g \in Posted :
        call[g].op \in SecondaryOps => call[g].body.merchant_id = config.MerchantID

\* A refund of a caller's order posted under the second merchant's ID.
C12_Witness ==
    \E g \in Posted :
        /\ call[g].op = "RefundPayment"
        /\ call[g].req.ReferenceNo = "ref1"
        /\ config.MerchantID = "m"
        /\ call[g].body.merchant_id = "m"


\* The operations whose result type is the envelope, *domain.PayTRResponse.
EnvelopeOps == Operations \ {"MerchantStatusInquiry", "GetTransactionDetails"}

\* C13: an envelope-returning operation whose round trip succeeded and whose body
\* decoded returns that envelope, status, message and data as decoded, with a nil
\* error, whatever the status is, a failure status included.
C13_EnvelopeReturnedAsIs ==
    \A g \in Returned :
        LET c == call[g] IN
        (c.op \in EnvelopeOps /\ GotEnvelope(c)) =>
            /\ c.err = NoError
            /\ c.result = [Status |-> c.reply.body.status,
                           Message |-> c.reply.body.message,
                           Data |-> c.reply.body.data]

\* A refund the gateway refused, handed to the caller as the envelope it sent.
C13_Witness ==
    \E g \in Returned :
        /\ call[g].op = "RefundPayment"
        /\ GotEnvelope(call[g])
        /\ call[g].err = NoError
        /\ call[g].result # Nil
        /\ call[g].result.Status = "failed"
        /\ call[g].result.Message = "order not found"
        /\ call[g].result.Data = DataStatus


\* What call c returned shows its caller the envelope's status and message.
ShowsEnvelope(c) ==
    /\ c.result # Nil
    /\ c.result.Status = c.reply.body.status
    /\ \/ "Message" \in DOMAIN c.result /\ c.result.Message = c.reply.body.message
       \/ "ErrMsg" \in DOMAIN c.result /\ c.result.ErrMsg = c.reply.body.message

\* C14: for every operation but the status inquiry, the transaction report
\* included, an envelope whose status is not "success" does not make the call
\* fail, and what the call returns shows the envelope's status and message.
C14_BusinessFailureLeftToCaller ==
    \A g \in Returned :
        LET c == call[g] IN
        (c.op # "MerchantStatusInquiry" /\ GotEnvelope(c)
            /\ c.reply.body.status # "success") =>
                c.err = NoError /\ ShowsEnvelope(c)


\* The calls paying with a saved card, once or recurring.
SavedCardCalls == {g \in Posted : call[g].op \in {"SavedCardPayment", "RecurringPayment"}}

\* C15: RecurringPayment sends recurring_payment "1" whatever the caller supplied
\* and SavedCardPayment sends the caller's value; given the same request the two
\* post to the same URL with the same token; neither changes the caller's request.
C15_RecurringFlagForced ==
    /\ [](\A g \in SavedCardCalls :
            /\ call[g].op = "RecurringPayment" => call[g].body.recurring_payment = "1"
            /\ call[g].op = "SavedCardPayment" =>
                  call[g].body.recurring_payment = call[g].req.RecurringPayment
            /\ \A h \in SavedCardCalls :
                  call[h].req = call[g].req =>
                      /\ call[h].p.url = call[g].p.url
                      /\ call[h].body.paytr_token = call[g].body.paytr_token)
    /\ [][\A g \in SavedCardCalls : call'[g].pc # "idle" => call'[g].req = call[g].req]_vars

\* The same request, flag "0", sent once as a saved-card payment and once recurring.
C15_Witness ==
    \E g, h \in SavedCardCalls :
        /\ call[g].op = "SavedCardPayment" /\ call[h].op = "RecurringPayment"
        /\ call[g].req = call[h].req
        /\ call[h].req.RecurringPayment = "0"
        /\ call[g].body.recurring_payment = "0"
        /\ call[h].body.recurring_payment = "1"
        /\ call[g].body.paytr_token = call[h].body.paytr_token


\* The calls of AddNewCard whose payload went out.
AddCardCalls == {g \in Posted : call[g].op = "AddNewCard"}

\* The request with the two fields AddNewCard is said to ignore blanked.
WithoutAmount(req) == [req EXCEPT !.PaymentAmount = Whole(0), !.Currency = ""]

\* C16: AddNewCard posts to the payment URL a new-card payload with amount 1
\* signed as "1.00", test mode "1", the one-item basket, store_card "1", payment
\* type "card" and installment count "0"; the caller's PaymentAmount and Currency
\* change neither the payload nor the token.
C16_AddNewCardFixedValues ==
    \A g \in AddCardCalls :
        LET b == call[g].body IN
        /\ call[g].p.url = PayTRBaseURL \o "/odeme"
        /\ call[g].p.type = "NewCardPaymentRequest"
        /\ b.payment_amount = Whole(1)
        /\ b.test_mode = "1"
        /\ b.user_basket = "[[\"Card Validation\", \"1\", 1]]"
        /\ b.store_card = "1"
        /\ b.payment_type = "card"
        /\ b.installment_count = "0"
        /\ b.paytr_token =
              Base64(HmacSha256(config.MerchantKey,
                  config.MerchantID \o b.user_ip \o b.merchant_oid \o b.email \o "1.00"
                      \o "card" \o "0" \o b.currency \o "1" \o b.non_3d
                      \o config.MerchantSalt))
        /\ \A h \in AddCardCalls :
              WithoutAmount(call[h].req) = WithoutAmount(call[g].req) =>
                  call[h].body = b

\* Two card registrations alike but for an amount of NaN and a currency of "TL".
C16_Witness ==
    \E g, h \in AddCardCalls :
        /\ call[g].req.PaymentAmount = NaN
        /\ call[h].req.Currency = "TL"
        /\ call[g].req.Currency # call[h].req.Currency
        /\ call[g].body = call[h].body
        /\ call[g].body.payment_amount = Whole(1)


\* C17: AddNewCard's payload carries the caller's user_ip, merchant_oid, email,
\* user_name, user_address, user_phone, merchant_ok_url and merchant_fail_url,
\* each from the same-named field of the AddNewCardRequest, and the caller's card
\* owner, number, expiry month and year, CVV and card type.
C17_AddNewCardReusesCallerFields ==
    \A g \in AddCardCalls :
        LET b == call[g].body
            req == call[g].req
        IN  /\ b.user_ip = req.UserIP
            /\ b.merchant_oid = req.MerchantOid
            /\ b.email = req.Email
            /\ b.user_name = req.UserName
            /\ b.user_address = req.UserAddress
            /\ b.user_phone = req.UserPhone
            /\ b.merchant_ok_url = req.MerchantOkURL
            /\ b.merchant_fail_url = req.MerchantFailURL
            /\ b.cc_owner = req.CardOwner
            /\ b.card_number = req.CardNumber
            /\ b.expiry_month = req.ExpiryMonth
            /\ b.expiry_year = req.ExpiryYear
            /\ b.cvv = req.CVV
            /\ b.card_type = req.CardType


\* The calls of the two operations that decode the envelope's data.
DecodingCalls ==
    {g \in Returned : call[g].op \in {"MerchantStatusInquiry", "GetTransactionDetails"}
                      /\ call[g].decoded}

\* The result type of a decoding operation.
ResultType(op) ==
    IF op = "MerchantStatusInquiry" THEN "StatusInquiryResponse"
    ELSE "TransactionDetailsResponse"

RECURSIVE Carries(_, _, _)
\* Struct value v of type `type` holds every entry of `data` keyed by the wire
\* name of one of its fields, nested rows included.
Carries(type, data, v) ==
    LET fields == StructFields(type)
    IN  \A i \in DOMAIN fields : \A e \in data :
            e[1] = WireName(fields[i].name) =>
                IF fields[i].elem = ""
                THEN DOMAIN e[2] = {"str"} => v[fields[i].name] = e[2].str
                ELSE DOMAIN e[2] = {"list"} =>
                        /\ Len(v[fields[i].name]) = Len(e[2].list)
                        /\ \A k \in DOMAIN e[2].list :
                              Carries(fields[i].elem, e[2].list[k], v[fields[i].name][k])

\* Some entry keyed by a field's wire name has a value the field cannot take.
Inconvertible(type, data) ==
    LET fields == StructFields(type)
    IN  \E i \in DOMAIN fields : \E e \in data :
            /\ e[1] = WireName(fields[i].name)
            /\ DOMAIN e[2] # (IF fields[i].elem = "" THEN {"str"} ELSE {"list"})

\* C18: MerchantStatusInquiry and GetTransactionDetails decode the envelope's data
\* so that every entry keyed by a result field's wire name is that field's value in
\* the result; data that cannot be converted gives a decoding error and no result.
C18_DataDecodedByWireName ==
    \A g \in DecodingCalls :
        LET c == call[g]
            data == c.reply.body.data
        IN  /\ c.err = NoError => Carries(ResultType(c.op), data, c.result)
            /\ Inconvertible(ResultType(c.op), data) =>
                  (c.err = "error decoding response" /\ c.result = Nil)


\* The token over a payment payload's signed fields with the merchant ID taken
\* from the payload itself.
TokenOverPayload(b) ==
    Base64(HmacSha256(config.MerchantKey,
        b.merchant_id \o b.user_ip \o b.merchant_oid \o b.email
            \o FormatFloat(b.payment_amount) \o b.payment_type \o b.installment_count
            \o b.currency \o b.test_mode \o b.non_3d \o config.MerchantSalt))

\* C19: for NewCardPayment, SavedCardPayment and RecurringPayment the merchant ID
\* the token covers is the merchant ID sent as the payload's merchant_id, whatever
\* request the caller supplies, one with an empty or a foreign MerchantID included.
C19_TokenCoversPayloadMerchant ==
    \A g \in Posted :
        call[g].op \in {"NewCardPayment", "SavedCardPayment", "RecurringPayment"} =>
            call[g].body.paytr_token = TokenOverPayload(call[g].body)


\* Two answered calls of one operation whose replies differ at most in the HTTP
\* status code.
SameButCode(g, h) ==
    /\ call[g].op = call[h].op
    /\ call[g].req = call[h].req
    /\ call[g].reply # Nil /\ call[h].reply # Nil
    /\ [call[g].reply EXCEPT !.code = 0] = [call[h].reply EXCEPT !.code = 0]

\* C20: the HTTP status code of the reply has no part in the outcome: two replies
\* with the same body and different codes give the same result and the same error.
C20_StatusCodeIgnored ==
    \A g, h \in Returned :
        SameButCode(g, h) =>
            /\ call[g].err = call[h].err
            /\ call[g].result = call[h].result

\* The same envelope under 200 and under 500, and one outcome for both calls.
C20_Witness ==
    \E g, h \in Returned :
        /\ SameButCode(g, h)
        /\ call[g].reply.code = 200 /\ call[h].reply.code = 500
        /\ call[g].reply.body.valid
        /\ call[g].err = NoError /\ call[h].err = NoError
        /\ call[g].result = call[h].result


\* The calls of the operations signed by generateToken.
PaymentCalls == {g \in Signed : call[g].op \in PaymentOps}

\* C21: the payment token depends on the credentials and the signed fields alone:
\* two payment requests that agree on user IP, order ID, email, two-decimal amount,
\* payment type, installment count, currency, test mode and non-3D flag get the
\* same token whatever else differs, the caller's MerchantID included, and a
\* PayTRToken the caller supplied is replaced by the computed one.
C21_TokenDependsOnSignedFieldsOnly ==
    \A g \in PaymentCalls :
        /\ \A h \in PaymentCalls :
              SignedTexts(call[g]) = SignedTexts(call[h]) =>
                  call[g].p.v.PayTRToken = call[h].p.v.PayTRToken
        /\ (call[g].op # "AddNewCard" /\ call[g].req.PayTRToken = "forged") =>
              call[g].p.v.PayTRToken # "forged"

\* A payment with another card and one with a forged token, both signed alike.
C21_Witness ==
    \E g, h \in PaymentCalls :
        /\ call[g].op = "NewCardPayment" /\ call[h].op = "NewCardPayment"
        /\ call[g].req.CardNumber # call[h].req.CardNumber
        /\ call[h].req.PayTRToken = "forged"
        /\ SignedTexts(call[g]) = SignedTexts(call[h])
        /\ call[g].p.v.PayTRToken = call[h].p.v.PayTRToken
        /\ call[h].p.v.PayTRToken # "forged"

====
